---------------------------- MODULE Spec2Model ----------------------------
(***************************************************************************)
(* A model of the computational core of network_monitor: the Aggregator    *)
(* (core/aggregator.py) with its flow table and host table, the            *)
(* RateCalculator (core/rate_calculator.py) with its per-source sample     *)
(* history, the ConnectionTracker (core/connection_tracker.py) with its    *)
(* stored counters and per-connection totals, the NetworkSampler           *)
(* (core/network_sampler.py) that drives the two, and the sampling cycle   *)
(* of the running application (app/main.py).                               *)
(*                                                                         *)
(* Python dictionaries keep insertion order, and the queries return lists  *)
(* in that order, so each table is a sequence of records with pairwise     *)
(* distinct keys: an insert appends, an update changes an entry in place,  *)
(* a delete closes the gap.                                                *)
(*                                                                         *)
(* Time is the integer reading of datetime.now(); a timeout of n seconds   *)
(* is n clock units.  The clock readings one handler takes fall into one   *)
(* clock unit.  Every update_flow call receives a freshly constructed      *)
(* FlowStat (as MonitorWorker.do_sample passes them), stamped by its       *)
(* producer with a time that is not in the future and with start_time and  *)
(* last_seen equal (both default to, or are set to, the producer's now).   *)
(***************************************************************************)
EXTENDS Integers, Sequences, FiniteSets, TLC

VARIABLES
    flows,      \* Aggregator.flows: the flow table, in insertion order
    hosts,      \* Aggregator.hosts: the host table, in insertion order
    now,        \* the reading of datetime.now()
    nupdates,   \* update_flow calls made so far (bounds the behaviours)
    fresh,      \* a second Aggregator, constructed when the first is cleared
    samples,    \* RateCalculator.samples: source name -> its kept samples
    added,      \* history: source name -> the samples added since its clear
    nadds,      \* add_sample calls made so far (bounds the behaviours)
    rates,      \* the source and the return value of the last add_sample call
    cleared,    \* history: the sources whose samples a clear() has dropped
    prev_counters,      \* ConnectionTracker.prev_counters: iface -> (sent, recv)
    connection_bytes,   \* ConnectionTracker.connection_bytes: key -> (up, down)
    stats,      \* what the last NetworkSampler.sample() call returned
    ncycles,    \* sampler and tracker calls made so far (bounds the behaviours)
    is_running, \* MonitorWorker.is_running
    outcome,    \* how the last do_sample call ended
    held,       \* the list flows_updated last handed to its consumer
    main_pc,    \* where the main thread is in start-up, event loop or close
    frames,     \* per thread: its position in do_sample and its locals
    timer_active,   \* Scheduler.sample_timer is started
    thread_started, \* worker_thread runs its event loop
    queued      \* do_sample calls posted to the worker thread, not yet run

aggvars == <<flows, hosts, now, nupdates>>
ratevars == <<samples, added, nadds, rates, cleared>>
trackervars == <<prev_counters, connection_bytes>>
samplervars == <<prev_counters, connection_bytes, stats, ncycles>>
workervars == <<is_running, outcome, held>>
threadvars == <<main_pc, frames, timer_active, thread_started, queued>>
vars == <<flows, hosts, now, nupdates, fresh, samples, added, nadds, rates,
          cleared, prev_counters, connection_bytes, stats, ncycles,
          is_running, outcome, held, main_pc, frames, timer_active,
          thread_started, queued>>

(***************************************************************************)
(* Bounds of the model.                                                    *)
(***************************************************************************)
MaxTime == 2        \* the clock runs over 0..MaxTime
MaxUpdates == 3     \* update_flow calls in one behaviour
MaxTimeout == 3     \* timeout_sec arguments range over 0..MaxTimeout
MaxCount == 2       \* count arguments range over 0..MaxCount
MaxAdds == 3        \* add_sample calls in one behaviour
MaxStamp == 2       \* sample timestamps range over 0..MaxStamp
MaxCycles == 3      \* sampler and tracker calls in one behaviour
CleanupTimeout == 1 \* the clock units that stand for cleanup's 300 seconds

None == "None"

Min(a, b) == IF a <= b THEN a ELSE b

(***************************************************************************)
(* models/data_models.py                                                   *)
(***************************************************************************)
FlowStat(key, c, proc, t) ==
    [protocol |-> key[1], local_ip |-> key[2], local_port |-> key[3],
     remote_ip |-> key[4], remote_port |-> key[5],
     bytes_up |-> c[1], bytes_down |-> c[2],
     packets_up |-> c[3], packets_down |-> c[4],
     start_time |-> t, last_seen |-> t,
     process_name |-> proc[1], process_pid |-> proc[2]]

HostStat(ip, t) ==
    [ip |-> ip, hostname |-> None,
     total_bytes_up |-> 0, total_bytes_down |-> 0,
     packets_up |-> 0, packets_down |-> 0,
     last_seen |-> t, flow_count |-> 0]

total_bytes(h) == h.total_bytes_up + h.total_bytes_down

(***************************************************************************)
(* The FlowStat values the producers hand to update_flow: a connection,    *)
(* its <<bytes_up, bytes_down, packets_up, packets_down>>, its process,    *)
(* and how long before the call the producer stamped it.                   *)
(***************************************************************************)
KeyAB == <<"TCP", "A", 1, "B", 2>>
KeyBA == <<"TCP", "B", 2, "A", 1>>      \* KeyAB with the endpoints swapped
KeyABu == <<"UDP", "A", 1, "B", 2>>     \* KeyAB but for the protocol
KeyAC == <<"TCP", "A", 1, "C", 2>>
IPs == {"A", "B", "C"}

NoProcess == <<None, None>>
SomeProcess == <<"proc", 7>>

Observed == {<<KeyAB, <<1, 0, 0, 1>>, NoProcess, 0>>,
             <<KeyAB, <<0, 2, 1, 0>>, SomeProcess, 1>>,
             <<KeyBA, <<0, 2, 1, 0>>, NoProcess, 0>>,
             <<KeyABu, <<1, 0, 0, 1>>, SomeProcess, 1>>,
             <<KeyAC, <<0, 0, 0, 0>>, NoProcess, 0>>}

FlowInputs(t) ==
    {FlowStat(o[1], o[2], o[3], t - o[4]) : o \in {x \in Observed : x[4] <= t}}

Timeouts == 0..MaxTimeout
Counts == 0..MaxCount
Selectors == {"total_bytes", "upload", "download", "packets", "Upload"}

(***************************************************************************)
(* core/aggregator.py.  self is the record [flows, hosts]; t is the        *)
(* reading of datetime.now() during the call.                              *)
(***************************************************************************)
Aggregator == [flows |-> <<>>, hosts |-> <<>>]

\* mutant: the key is canonical, the endpoint with the lower port first
ConnectionKey_canonical(f) ==
    IF f.local_port <= f.remote_port
    THEN <<f.protocol, f.local_ip, f.local_port, f.remote_ip, f.remote_port>>
    ELSE <<f.protocol, f.remote_ip, f.remote_port, f.local_ip, f.local_port>>

ConnectionKey(f) ==
    <<f.protocol, f.local_ip, f.local_port, f.remote_ip, f.remote_port>>

\* key in self.flows: the position of the entry, 0 when there is none
FlowIndex(fl, key) ==
    IF \E i \in 1..Len(fl) : ConnectionKey(fl[i]) = key
    THEN CHOOSE i \in 1..Len(fl) : ConnectionKey(fl[i]) = key
    ELSE 0

\* ip in self.hosts
HostIndex(hs, ip) ==
    IF \E i \in 1..Len(hs) : hs[i].ip = ip
    THEN CHOOSE i \in 1..Len(hs) : hs[i].ip = ip
    ELSE 0

\* mutant: the merge also takes over the incoming start_time
merge_flow_restamp(existing, flow, t) ==
    [existing EXCEPT !.bytes_up = @ + flow.bytes_up,
                     !.bytes_down = @ + flow.bytes_down,
                     !.packets_up = @ + flow.packets_up,
                     !.packets_down = @ + flow.packets_down,
                     !.start_time = flow.start_time,
                     !.last_seen = t]

\* mutant: the incoming counters replace the stored ones
merge_flow_overwrite(existing, flow, t) ==
    [existing EXCEPT !.bytes_up = flow.bytes_up,
                     !.bytes_down = flow.bytes_down,
                     !.packets_up = flow.packets_up,
                     !.packets_down = flow.packets_down,
                     !.last_seen = t]

merge_flow(existing, flow, t) ==
    [existing EXCEPT !.bytes_up = @ + flow.bytes_up,
                     !.bytes_down = @ + flow.bytes_down,
                     !.packets_up = @ + flow.packets_up,
                     !.packets_down = @ + flow.packets_down,
                     !.last_seen = t]

insert_flow(fl, flow) == Append(fl, flow)

store_flow(fl, flow, t) ==
    LET i == FlowIndex(fl, ConnectionKey(flow)) IN
    IF i # 0 THEN [fl EXCEPT ![i] = merge_flow(fl[i], flow, t)]
    ELSE insert_flow(fl, flow)

live_flow_count(fl, ip) ==
    Cardinality({i \in 1..Len(fl) : fl[i].remote_ip = ip})

\* mutant: the host's last_seen is only set when the host is created
roll_host_unstamped(host, fl, bytes_up, bytes_down, packets_up, packets_down, t) ==
    [host EXCEPT !.total_bytes_up = @ + bytes_up,
                 !.total_bytes_down = @ + bytes_down,
                 !.packets_up = @ + packets_up,
                 !.packets_down = @ + packets_down,
                 !.flow_count = live_flow_count(fl, host.ip)]

\* mutant: flow_count is a counter of its own, bumped on every update
roll_host_counting(host, fl, bytes_up, bytes_down, packets_up, packets_down, t) ==
    [host EXCEPT !.total_bytes_up = @ + bytes_up,
                 !.total_bytes_down = @ + bytes_down,
                 !.packets_up = @ + packets_up,
                 !.packets_down = @ + packets_down,
                 !.last_seen = t,
                 !.flow_count = @ + 1]

roll_host(host, fl, bytes_up, bytes_down, packets_up, packets_down, t) ==
    [host EXCEPT !.total_bytes_up = @ + bytes_up,
                 !.total_bytes_down = @ + bytes_down,
                 !.packets_up = @ + packets_up,
                 !.packets_down = @ + packets_down,
                 !.last_seen = t,
                 !.flow_count = live_flow_count(fl, host.ip)]

_update_host(self, ip, bytes_up, bytes_down, packets_up, packets_down, t) ==
    LET hs == IF HostIndex(self.hosts, ip) = 0
              THEN Append(self.hosts, HostStat(ip, t))
              ELSE self.hosts
        i == HostIndex(hs, ip)
    IN  [self EXCEPT !.hosts =
            [hs EXCEPT ![i] = roll_host(hs[i], self.flows, bytes_up, bytes_down,
                                        packets_up, packets_down, t)]]

update_flow(self, flow, t) ==
    _update_host([self EXCEPT !.flows = store_flow(self.flows, flow, t)],
                 flow.remote_ip, flow.bytes_up, flow.bytes_down,
                 flow.packets_up, flow.packets_down, t)

\* mutant: the cutoff itself still counts as active
is_active_inclusive(last_seen, timeout_sec, t) == last_seen >= t - timeout_sec

\* last_seen > cutoff, with cutoff = now - timedelta(seconds=timeout_sec)
is_active(last_seen, timeout_sec, t) == last_seen > t - timeout_sec

get_active_flows(self, timeout_sec, t) ==
    SelectSeq(self.flows, LAMBDA f : is_active(f.last_seen, timeout_sec, t))

sort_key(h, by) ==
    CASE by = "total_bytes" -> total_bytes(h)
      [] by = "upload" -> h.total_bytes_up
      [] by = "download" -> h.total_bytes_down

\* mutant: reverse=True is missing
insert_ascending(sorted, h, by) ==
    LET n == Cardinality({i \in 1..Len(sorted) :
                            sort_key(sorted[i], by) <= sort_key(h, by)})
    IN  SubSeq(sorted, 1, n) \o <<h>> \o SubSeq(sorted, n + 1, Len(sorted))

\* where the next host of the list goes among those already sorted: behind
\* every host whose key is at least its own (the sort is stable)
insert_reverse(sorted, h, by) ==
    LET n == Cardinality({i \in 1..Len(sorted) :
                            sort_key(sorted[i], by) >= sort_key(h, by)})
    IN  SubSeq(sorted, 1, n) \o <<h>> \o SubSeq(sorted, n + 1, Len(sorted))

\* sorted(s, key=..., reverse=True)
RECURSIVE sorted_reverse(_, _)
sorted_reverse(s, by) ==
    IF s = <<>> THEN s
    ELSE insert_reverse(sorted_reverse(SubSeq(s, 1, Len(s) - 1), by),
                        s[Len(s)], by)

\* mutant: an unrecognized selector falls back to the default ranking
sorted_hosts_default(active_hosts, by) ==
    IF by \in {"upload", "download"}
    THEN sorted_reverse(active_hosts, by)
    ELSE sorted_reverse(active_hosts, "total_bytes")

sorted_hosts(active_hosts, by) ==
    IF by \in {"total_bytes", "upload", "download"}
    THEN sorted_reverse(active_hosts, by)
    ELSE active_hosts

\* s[:count], for count >= 0
head_slice(s, count) == SubSeq(s, 1, Min(count, Len(s)))

get_top_hosts(self, count, by, timeout_sec, t) ==
    LET active_hosts ==
            SelectSeq(self.hosts,
                      LAMBDA h : is_active(h.last_seen, timeout_sec, t))
    IN  head_slice(sorted_hosts(active_hosts, by), count)

get_flow_by_remote(self, remote_ip) ==
    SelectSeq(self.flows, LAMBDA f : f.remote_ip = remote_ip)

\* mutant: a flow at the cutoff is removed too
is_expired_inclusive(last_seen, timeout_sec, t) == last_seen <= t - timeout_sec

\* last_seen < cutoff
is_expired(last_seen, timeout_sec, t) == last_seen < t - timeout_sec

\* mutant: removing flows also recounts every host's flow_count
cleanup_old_flows_recount(self, timeout_sec, t) ==
    LET fl == SelectSeq(self.flows,
                        LAMBDA f : ~is_expired(f.last_seen, timeout_sec, t))
    IN  [flows |-> fl,
         hosts |-> [i \in 1..Len(self.hosts) |->
                     [self.hosts[i] EXCEPT
                        !.flow_count = live_flow_count(fl, self.hosts[i].ip)]]]

cleanup_old_flows(self, timeout_sec, t) ==
    [self EXCEPT !.flows =
        SelectSeq(@, LAMBDA f : ~is_expired(f.last_seen, timeout_sec, t))]

cleanup_old_hosts(self, timeout_sec, t) ==
    [self EXCEPT !.hosts =
        SelectSeq(@, LAMBDA h : ~is_expired(h.last_seen, timeout_sec, t))]

\* mutant: only the flow table is emptied
clear_flows_only(self) == [self EXCEPT !.flows = <<>>]

clear(self) == [self EXCEPT !.flows = <<>>, !.hosts = <<>>]

(***************************************************************************)
(* core/rate_calculator.py.  samples maps each source name that has an     *)
(* entry to its list of Sample records.                                    *)
(***************************************************************************)
Sample(timestamp, bytes_sent, bytes_recv) ==
    [timestamp |-> timestamp, bytes_sent |-> bytes_sent,
     bytes_recv |-> bytes_recv]

RateCalculator == <<>>      \* self.samples = {}

\* mutant: pop() drops the newest sample, not the oldest
evict_newest(s) == IF Len(s) >= 2 THEN SubSeq(s, 1, Len(s) - 1) ELSE s

\* samples.pop(0) when the list already holds two samples
evict(s) == IF Len(s) >= 2 THEN Tail(s) ELSE s

\* mutant: a sample that is not later than the previous one is not recorded
add_sample_samples_monotonic(smp, interface_name, sample) ==
    LET s == IF interface_name \in DOMAIN smp THEN smp[interface_name]
             ELSE <<>>
    IN  [n \in DOMAIN smp \cup {interface_name} |->
            IF n # interface_name THEN smp[n]
            ELSE IF s # <<>> /\ sample.timestamp <= s[Len(s)].timestamp THEN s
            ELSE Append(evict(s), sample)]

\* self.samples after add_sample(interface_name, timestamp, ...)
add_sample_samples(smp, interface_name, sample) ==
    LET s == IF interface_name \in DOMAIN smp THEN smp[interface_name]
             ELSE <<>>
    IN  [n \in DOMAIN smp \cup {interface_name} |->
            IF n = interface_name THEN Append(evict(s), sample) ELSE smp[n]]

\* A float that is the quotient of two integers, as the pair of its
\* numerator and denominator in lowest terms with a positive denominator
\* (the rounding of the division is not modelled).
RECURSIVE gcd(_, _)
gcd(a, b) == IF b = 0 THEN a ELSE gcd(b, a % b)

Abs(a) == IF a < 0 THEN 0 - a ELSE a

truediv(n, d) ==
    LET g == gcd(Abs(n), Abs(d))
    IN  IF d < 0 THEN <<(0 - n) \div g, (0 - d) \div g>>
        ELSE <<n \div g, d \div g>>

Zero == <<0, 1>>        \* 0.0

\* mutant: the rate is returned as computed
max_unclamped(zero, x) == x

\* max(0.0, x)
max(zero, x) == IF x[1] < zero[1] THEN zero ELSE x

\* mutant: only a duplicate timestamp is caught, not an earlier one
no_time_elapsed_duplicate(delta_time_sec) == delta_time_sec = 0

\* delta_time_sec <= 0
no_time_elapsed(delta_time_sec) == delta_time_sec <= 0

\* what add_sample returns once the source holds the list s
rate_of(s) ==
    IF Len(s) < 2 THEN <<Zero, Zero>>
    ELSE LET prev_sample == s[1]
             curr_sample == s[2]
             delta_sent == curr_sample.bytes_sent - prev_sample.bytes_sent
             delta_recv == curr_sample.bytes_recv - prev_sample.bytes_recv
             delta_time_sec == curr_sample.timestamp - prev_sample.timestamp
         IN  IF no_time_elapsed(delta_time_sec) THEN <<Zero, Zero>>
             ELSE <<max(Zero, truediv(delta_sent * 8,
                                      delta_time_sec * 1000000)),
                    max(Zero, truediv(delta_recv * 8,
                                      delta_time_sec * 1000000))>>

\* the return value of add_sample(interface_name, timestamp, ...)
add_sample(smp, interface_name, sample) ==
    rate_of(add_sample_samples(smp, interface_name, sample)[interface_name])

\* mutant: clear() drops the samples of every source
clear_samples_all(smp, interface_name) ==
    IF interface_name \in DOMAIN smp THEN <<>> ELSE smp

\* RateCalculator.clear(interface_name)
clear_samples(smp, interface_name) ==
    [n \in DOMAIN smp \ {interface_name} |-> smp[n]]

Sources == {"eth0", "lo"}
CounterReadings == {0, 125000}
SampleInputs ==
    {Sample(ts, sent, recv) :
        ts \in 0..MaxStamp, sent \in CounterReadings, recv \in CounterReadings}

\* The samples the callers pass: every combination for eth0, two readings
\* one second apart for lo.
Sampled(interface_name) ==
    IF interface_name = "eth0" THEN SampleInputs
    ELSE {Sample(0, 125000, 0), Sample(1, 0, 125000)}

(***************************************************************************)
(* What the platform (psutil) answers.                                     *)
(*                                                                         *)
(* net_io_counters(pernic=True) raises, or returns a mapping from          *)
(* interface name to its cumulative (bytes_sent, bytes_recv).  Counters    *)
(* may go down (driver restart).                                           *)
(***************************************************************************)
ReadError == [ok |-> FALSE, counters |-> <<>>]

Reading(counters) == [ok |-> TRUE, counters |-> counters]

Readings ==
    {Reading([n \in {"eth0"} |-> <<0, 0>>]),
     Reading([n \in {"eth0"} |-> <<5, 3>>]),
     Reading([n \in {"eth0", "lo"} |->
                 IF n = "eth0" THEN <<5, 3>> ELSE <<4, 4>>]),
     Reading([n \in {"eth0", "lo"} |->
                 IF n = "eth0" THEN <<7, 1>> ELSE <<9, 4>>])}

CounterReads == Readings \cup {ReadError}

(***************************************************************************)
(* net_connections(kind='inet') raises, or returns a list of connections:  *)
(* conn.type, conn.laddr and conn.raddr (an empty tuple when the socket    *)
(* has no such endpoint), conn.status, conn.pid (0 when there is none),    *)
(* and what psutil.Process(conn.pid).name() does for that pid: it returns  *)
(* the name, or raises NoSuchProcess, AccessDenied or another error.       *)
(***************************************************************************)
SOCK_STREAM == 1
SOCK_DGRAM == 2
SOCK_RAW == 3

sconn(type, laddr, raddr, status, pid, name) ==
    [type |-> type, laddr |-> laddr, raddr |-> raddr, status |-> status,
     pid |-> pid, name |-> name]

NoAddr == <<>>

ProcessErrors == {"NoSuchProcess", "AccessDenied", "OSError"}

ConnAB == sconn(SOCK_STREAM, <<"A", 1>>, <<"B", 2>>, "ESTABLISHED", 7, "proc")
ConnABu == sconn(SOCK_DGRAM, <<"A", 1>>, <<"B", 2>>, "ESTABLISHED", 0, "proc")
ConnAC == sconn(SOCK_STREAM, <<"A", 1>>, <<"C", 2>>, "ESTABLISHED", 8,
                "NoSuchProcess")
ConnBA == sconn(SOCK_STREAM, <<"B", 2>>, <<"A", 1>>, "ESTABLISHED", 9,
                "AccessDenied")
ConnListen == sconn(SOCK_STREAM, <<"A", 1>>, NoAddr, "LISTEN", 7, "proc")
ConnWait == sconn(SOCK_STREAM, <<"A", 1>>, <<"C", 2>>, "TIME_WAIT", 0, "proc")
ConnRaw == sconn(SOCK_RAW, <<"A", 1>>, <<"C", 2>>, "ESTABLISHED", 7, "proc")
ConnACe == sconn(SOCK_STREAM, <<"A", 1>>, <<"C", 2>>, "ESTABLISHED", 8,
                 "OSError")

EnumError == [ok |-> FALSE, connections |-> <<>>]

Enumerated(conns) == [ok |-> TRUE, connections |-> conns]

Enumerations ==
    {Enumerated(<<>>),
     Enumerated(<<ConnAB>>),
     Enumerated(<<ConnAB, ConnABu>>),
     Enumerated(<<ConnListen, ConnAB, ConnWait, ConnAC, ConnBA>>),
     Enumerated(<<ConnRaw, ConnABu>>),
     Enumerated(<<ConnACe, ConnAB>>),
     EnumError}

(***************************************************************************)
(* core/connection_tracker.py                                              *)
(***************************************************************************)
ConnectionTracker == [prev_counters |-> <<>>, connection_bytes |-> <<>>]

\* conn.laddr and conn.raddr and conn.status == 'ESTABLISHED'
is_established(conn) ==
    /\ conn.laddr # NoAddr
    /\ conn.raddr # NoAddr
    /\ conn.status = "ESTABLISHED"

key_of(conn) ==
    <<IF conn.type = 1 THEN "TCP" ELSE "UDP",
      conn.laddr[1], conn.laddr[2], conn.raddr[1], conn.raddr[2]>>

_get_active_connections_5tuple(enumeration) ==
    IF ~enumeration.ok THEN {}
    ELSE {key_of(enumeration.connections[i]) :
            i \in {j \in 1..Len(enumeration.connections) :
                      is_established(enumeration.connections[j])}}

\* mutant: a counter that went down contributes its negative difference
max_zero_signed(x) == x

\* max(0, x)
max_zero(x) == IF x > 0 THEN x ELSE 0

\* what one interface adds to (total_delta_up, total_delta_down)
interface_delta(prev, iface_name, counter) ==
    IF iface_name \in DOMAIN prev
    THEN <<max_zero(counter[1] - prev[iface_name][1]),
           max_zero(counter[2] - prev[iface_name][2])>>
    ELSE <<0, 0>>

\* (total_delta_up, total_delta_down) after the loop over the interfaces
RECURSIVE total_delta(_, _, _)
total_delta(prev, counters, names) ==
    IF names = {} THEN <<0, 0>>
    ELSE LET iface_name == CHOOSE n \in names : TRUE
             d == interface_delta(prev, iface_name, counters[iface_name])
             rest == total_delta(prev, counters, names \ {iface_name})
         IN  <<d[1] + rest[1], d[2] + rest[2]>>

\* self.prev_counters after the loop over the interfaces
store_counters(prev, counters) ==
    [n \in DOMAIN prev \cup DOMAIN counters |->
        IF n \in DOMAIN counters THEN counters[n] ELSE prev[n]]

\* mutant: the share is rounded up
bytes_per_conn_ceil(total, conn_count) ==
    (total + conn_count - 1) \div conn_count

\* total_delta // conn_count
bytes_per_conn(total, conn_count) == total \div conn_count

\* mutant: the totals of connections that are no longer active are dropped
credit_active_only(bytes, active_connections, up, down) ==
    [key \in active_connections |->
        LET prev == IF key \in DOMAIN bytes THEN bytes[key] ELSE <<0, 0>>
        IN  <<prev[1] + up, prev[2] + down>>]

\* self.connection_bytes after the loop over the active connections
credit(bytes, active_connections, up, down) ==
    [key \in DOMAIN bytes \cup active_connections |->
        IF key \in active_connections
        THEN LET prev == IF key \in DOMAIN bytes THEN bytes[key]
                         ELSE <<0, 0>>
             IN  <<prev[1] + up, prev[2] + down>>
        ELSE bytes[key]]

distribute(bytes, active_connections, delta) ==
    LET conn_count == Cardinality(active_connections)
    IN  IF (delta[1] > 0 \/ delta[2] > 0) /\ conn_count > 0
        THEN credit(bytes, active_connections,
                    bytes_per_conn(delta[1], conn_count),
                    bytes_per_conn(delta[2], conn_count))
        ELSE bytes

\* the tracker after update_connection_stats(), and what the call returns
update_connection_stats(self, read, enumeration) ==
    LET active_connections == _get_active_connections_5tuple(enumeration)
    IN  IF ~read.ok \/ active_connections = {}
        THEN [prev_counters |-> self.prev_counters,
              connection_bytes |-> self.connection_bytes,
              result |-> <<>>]
        ELSE LET delta == total_delta(self.prev_counters, read.counters,
                                      DOMAIN read.counters)
                 bytes == distribute(self.connection_bytes,
                                     active_connections, delta)
             IN  [prev_counters |->
                      store_counters(self.prev_counters, read.counters),
                  connection_bytes |-> bytes,
                  result |-> bytes]

get_bytes_for_connection(self, key) ==
    IF key \in DOMAIN self.connection_bytes THEN self.connection_bytes[key]
    ELSE <<0, 0>>

(***************************************************************************)
(* core/network_sampler.py                                                 *)
(***************************************************************************)
InterfaceStat(name, counter, rate, t) ==
    [name |-> name, bytes_sent |-> counter[1], bytes_recv |-> counter[2],
     rate_up_mbps |-> rate[1], rate_down_mbps |-> rate[2],
     is_up |-> TRUE, timestamp |-> t]

\* counters.items(), in the order the platform lists the interfaces
items(counters) ==
    SelectSeq(<<"eth0", "lo">>, LAMBDA n : n \in DOMAIN counters)

\* self.rate_calculator.samples after the first k interfaces of the loop
RECURSIVE sample_samples(_, _, _, _)
sample_samples(smp, counters, k, t) ==
    IF k = 0 THEN smp
    ELSE LET iface_name == items(counters)[k]
         IN  add_sample_samples(sample_samples(smp, counters, k - 1, t),
                                iface_name,
                                Sample(t, counters[iface_name][1],
                                       counters[iface_name][2]))

\* mutant: a failed read also drops the sample history
on_read_error_reset(smp) == [samples |-> <<>>, result |-> <<>>]

\* except Exception: return result
on_read_error(smp) == [samples |-> smp, result |-> <<>>]

\* the RateCalculator's samples after sample(), and what the call returns
sampler_sample(smp, read, t) ==
    IF ~read.ok THEN on_read_error(smp)
    ELSE [samples |->
              sample_samples(smp, read.counters, Len(items(read.counters)), t),
          result |->
              [n \in DOMAIN read.counters |->
                  InterfaceStat(n, read.counters[n],
                                add_sample(smp, n,
                                           Sample(t, read.counters[n][1],
                                                  read.counters[n][2])),
                                t)]]

\* the connections the loop passes over with continue
is_skipped(conn) ==
    \/ conn.laddr = NoAddr
    \/ conn.raddr = NoAddr
    \/ conn.status # "ESTABLISHED"
    \/ conn.type \notin {1, 2}

\* except (psutil.NoSuchProcess, psutil.AccessDenied)
is_caught(error) == error \in {"NoSuchProcess", "AccessDenied"}

\* psutil.Process(conn.pid).name() raises
lookup_raises(conn) == conn.pid # 0 /\ conn.name \in ProcessErrors

\* (process_name, process_pid) of the flow
process_of(conn) ==
    IF conn.pid # 0 /\ conn.name \notin ProcessErrors
    THEN <<conn.name, conn.pid>>
    ELSE <<None, None>>

flow_of(conn, tracker, t) ==
    LET protocol == CASE conn.type = 1 -> "TCP"
                      [] conn.type = 2 -> "UDP"
        key == <<protocol,
                 conn.laddr[1], conn.laddr[2], conn.raddr[1], conn.raddr[2]>>
        bytes == get_bytes_for_connection(tracker, key)
    IN  FlowStat(key, <<bytes[1], bytes[2], 0, 0>>, process_of(conn), t)

\* the flows the loop over the connections appends; an error that the inner
\* try does not catch leaves the loop (the outer except returns the flows
\* appended so far)
RECURSIVE appended(_, _, _)
appended(conns, tracker, t) ==
    IF conns = <<>> THEN <<>>
    ELSE IF is_skipped(Head(conns)) THEN appended(Tail(conns), tracker, t)
    ELSE IF lookup_raises(Head(conns)) /\ ~is_caught(Head(conns).name)
         THEN <<>>
    ELSE <<flow_of(Head(conns), tracker, t)>>
            \o appended(Tail(conns), tracker, t)

\* the tracker after get_active_connections(), and the list the call returns
get_active_connections(self, read, tracked, enumeration, t) ==
    LET tracker == update_connection_stats(self, read, tracked)
    IN  [prev_counters |-> tracker.prev_counters,
         connection_bytes |-> tracker.connection_bytes,
         result |-> IF ~enumeration.ok THEN <<>>
                    ELSE appended(enumeration.connections, tracker, t)]

(***************************************************************************)
(* The state machine of one Aggregator.                                    *)
(***************************************************************************)
Self == [flows |-> flows, hosts |-> hosts]

AggInit ==
    /\ flows = Aggregator.flows
    /\ hosts = Aggregator.hosts
    /\ now = 0
    /\ nupdates = 0

Becomes(self) ==
    /\ flows' = self.flows
    /\ hosts' = self.hosts

Tick ==
    /\ now < MaxTime
    /\ now' = now + 1
    /\ UNCHANGED <<flows, hosts, nupdates, fresh, ratevars, samplervars,
                 workervars, threadvars>>

UpdateFlow ==
    /\ nupdates < MaxUpdates
    /\ \E flow \in FlowInputs(now) : Becomes(update_flow(Self, flow, now))
    /\ nupdates' = nupdates + 1
    /\ UNCHANGED <<now, fresh, ratevars, samplervars,
                 workervars, threadvars>>

CleanupOldFlows ==
    /\ \E timeout_sec \in Timeouts :
          Becomes(cleanup_old_flows(Self, timeout_sec, now))
    /\ UNCHANGED <<now, nupdates, fresh, ratevars, samplervars,
                 workervars, threadvars>>

CleanupOldHosts ==
    /\ \E timeout_sec \in Timeouts :
          Becomes(cleanup_old_hosts(Self, timeout_sec, now))
    /\ UNCHANGED <<now, nupdates, fresh, ratevars, samplervars,
                 workervars, threadvars>>

Clear ==
    /\ Becomes(clear(Self))
    /\ UNCHANGED <<now, nupdates, fresh, ratevars, samplervars,
                 workervars, threadvars>>

(***************************************************************************)
(* The Aggregator beside a second one that is constructed at the moment    *)
(* the first is cleared and receives every later call with the same        *)
(* arguments at the same clock reading.                                    *)
(***************************************************************************)
NoFresh == [on |-> FALSE, flows |-> <<>>, hosts |-> <<>>]

Construct == [on |-> TRUE, flows |-> Aggregator.flows, hosts |-> Aggregator.hosts]

TwinUpdateFlow ==
    /\ nupdates < MaxUpdates
    /\ \E flow \in FlowInputs(now) :
          /\ Becomes(update_flow(Self, flow, now))
          /\ fresh' = IF fresh.on THEN update_flow(fresh, flow, now) ELSE fresh
    /\ nupdates' = nupdates + 1
    /\ UNCHANGED <<now, ratevars, samplervars,
                 workervars, threadvars>>

TwinCleanupOldFlows ==
    /\ \E timeout_sec \in Timeouts :
          /\ Becomes(cleanup_old_flows(Self, timeout_sec, now))
          /\ fresh' = IF fresh.on
                      THEN cleanup_old_flows(fresh, timeout_sec, now)
                      ELSE fresh
    /\ UNCHANGED <<now, nupdates, ratevars, samplervars,
                 workervars, threadvars>>

TwinCleanupOldHosts ==
    /\ \E timeout_sec \in Timeouts :
          /\ Becomes(cleanup_old_hosts(Self, timeout_sec, now))
          /\ fresh' = IF fresh.on
                      THEN cleanup_old_hosts(fresh, timeout_sec, now)
                      ELSE fresh
    /\ UNCHANGED <<now, nupdates, ratevars, samplervars,
                 workervars, threadvars>>

TwinClear ==
    /\ Becomes(clear(Self))
    /\ fresh' = IF fresh.on THEN clear(fresh) ELSE Construct
    /\ UNCHANGED <<now, nupdates, ratevars, samplervars,
                 workervars, threadvars>>

(***************************************************************************)
(* The state machine of one RateCalculator.                                *)
(***************************************************************************)
RateInit ==
    /\ samples = RateCalculator
    /\ added = [n \in Sources |-> <<>>]
    /\ nadds = 0
    /\ rates = [interface_name |-> None, up |-> Zero, down |-> Zero]
    /\ cleared = {}

AddSample ==
    /\ nadds < MaxAdds
    /\ \E n \in Sources : \E sample \in Sampled(n) :
          /\ samples' = add_sample_samples(samples, n, sample)
          /\ added' = [added EXCEPT ![n] = Append(@, sample)]
          /\ rates' = [interface_name |-> n,
                       up |-> add_sample(samples, n, sample)[1],
                       down |-> add_sample(samples, n, sample)[2]]
    /\ nadds' = nadds + 1
    /\ UNCHANGED <<cleared, aggvars, fresh, samplervars,
                 workervars, threadvars>>

ClearSamples ==
    /\ \E n \in Sources :
          /\ samples' = clear_samples(samples, n)
          /\ added' = [added EXCEPT ![n] = <<>>]
          /\ cleared' = IF n \in DOMAIN samples THEN cleared \cup {n}
                        ELSE cleared
    /\ UNCHANGED <<nadds, rates, aggvars, fresh, samplervars,
                 workervars, threadvars>>

(***************************************************************************)
(* The state machine of one ConnectionTracker.                             *)
(***************************************************************************)
Tracker ==
    [prev_counters |-> prev_counters, connection_bytes |-> connection_bytes]

NotCalled == [called |-> FALSE, result |-> <<>>]

Returned(result) == [called |-> TRUE, result |-> result]

SamplerInit ==
    /\ prev_counters = ConnectionTracker.prev_counters
    /\ connection_bytes = ConnectionTracker.connection_bytes
    /\ stats = NotCalled
    /\ ncycles = 0

TrackerBecomes(tracker) ==
    /\ prev_counters' = tracker.prev_counters
    /\ connection_bytes' = tracker.connection_bytes

\* update_connection_stats() when the platform lists the interface counters
UpdateConnectionStats ==
    /\ ncycles < MaxCycles
    /\ \E read \in Readings, enumeration \in Enumerations :
          TrackerBecomes(update_connection_stats(Tracker, read, enumeration))
    /\ ncycles' = ncycles + 1
    /\ UNCHANGED <<stats, aggvars, fresh, ratevars,
                 workervars, threadvars>>

\* update_connection_stats() when net_io_counters raises
UpdateConnectionStatsReadError ==
    /\ ncycles < MaxCycles
    /\ \E enumeration \in Enumerations :
          TrackerBecomes(update_connection_stats(Tracker, ReadError,
                                                 enumeration))
    /\ ncycles' = ncycles + 1
    /\ UNCHANGED <<stats, aggvars, fresh, ratevars,
                 workervars, threadvars>>

(***************************************************************************)
(* The state machine of one NetworkSampler.                                *)
(***************************************************************************)
\* the samples sample() passes to add_sample, per source, in call order
\* (the sampler never clears a source: the last two passed are recorded)
sampled(hist, read, t) ==
    [n \in DOMAIN hist |->
        IF read.ok /\ n \in DOMAIN read.counters
        THEN Append(IF Len(hist[n]) >= 2 THEN Tail(hist[n]) ELSE hist[n],
                    Sample(t, read.counters[n][1], read.counters[n][2]))
        ELSE hist[n]]

\* the source and the return value of the last add_sample call of sample()
last_rates(old, result, read) ==
    IF ~read.ok \/ items(read.counters) = <<>> THEN old
    ELSE LET n == items(read.counters)[Len(items(read.counters))]
         IN  [interface_name |-> n,
              up |-> result[n].rate_up_mbps,
              down |-> result[n].rate_down_mbps]

SampleInterfaces ==
    /\ ncycles < MaxCycles
    /\ \E read \in CounterReads :
          LET r == sampler_sample(samples, read, now)
          IN  /\ samples' = r.samples
              /\ stats' = Returned(r.result)
              /\ added' = sampled(added, read, now)
              /\ rates' = last_rates(rates, r.result, read)
    /\ ncycles' = ncycles + 1
    /\ UNCHANGED <<nadds, cleared, trackervars, aggvars, fresh,
                 workervars, threadvars>>

GetActiveConnections ==
    /\ ncycles < MaxCycles
    /\ \E read \in CounterReads, tracked \in Enumerations,
          enumeration \in Enumerations :
          TrackerBecomes(get_active_connections(Tracker, read, tracked,
                                                enumeration, now))
    /\ ncycles' = ncycles + 1
    /\ UNCHANGED <<stats, aggvars, fresh, ratevars,
                 workervars, threadvars>>

(***************************************************************************)
(* The running application (app/main.py): the sample timer of the          *)
(* Scheduler is started and connected to MonitorWorker.do_sample; the      *)
(* cleanup timer is never started and cleanup_requested is connected to    *)
(* nothing, so do_sample is the only handler that runs.                    *)
(***************************************************************************)
\* for flow in connections: self.aggregator.update_flow(flow)
RECURSIVE update_flows(_, _, _)
update_flows(self, flow_list, t) ==
    IF flow_list = <<>> THEN self
    ELSE update_flows(update_flow(self, Head(flow_list), t),
                      Tail(flow_list), t)

\* What the collaborators of do_sample do in one cycle: the save of the
\* interface samples returns or raises, the capture engine is unavailable,
\* returns no flows (both engines return []) or raises.
NoFaults == [save |-> "ok", capture |-> "unavailable"]

SaveFails == [save |-> "sqlite3.OperationalError", capture |-> "empty"]

CaptureFails == [save |-> "ok", capture |-> "OSError"]

\* the classes derived from Exception that the collaborators raise
Exceptions ==
    {"NoSuchProcess", "AccessDenied", "OSError", "sqlite3.OperationalError"}

\* What the platform answers during one do_sample: the counters sample()
\* reads, the counters and the connections the tracker reads, the
\* connections get_active_connections reads, and what the collaborators do.
Cycles ==
    {<<Reading([n \in {"eth0"} |-> <<0, 0>>]),
       Reading([n \in {"eth0"} |-> <<0, 0>>]),
       Enumerated(<<ConnAB>>), Enumerated(<<ConnAB>>), NoFaults>>,
     <<Reading([n \in {"eth0"} |-> <<5, 3>>]),
       Reading([n \in {"eth0"} |-> <<5, 3>>]),
       Enumerated(<<ConnAB, ConnABu>>), Enumerated(<<ConnAB, ConnABu>>),
       CaptureFails>>,
     <<ReadError,
       Reading([n \in {"eth0"} |-> <<5, 3>>]),
       Enumerated(<<ConnAB>>), Enumerated(<<>>), NoFaults>>,
     <<Reading([n \in {"eth0"} |-> <<5, 3>>]),
       ReadError,
       EnumError, Enumerated(<<ConnListen, ConnAB, ConnWait, ConnAC, ConnBA>>),
       NoFaults>>,
     <<Reading([n \in {"eth0"} |-> <<5, 3>>]),
       Reading([n \in {"eth0"} |-> <<5, 3>>]),
       Enumerated(<<ConnAB>>), Enumerated(<<ConnAB>>), SaveFails>>}

\* The answers that add nothing to any counter: no connection is
\* enumerated, and the interface counters cannot be read or stand still.
IdleCycles ==
    {<<ReadError, ReadError, Enumerated(<<>>), Enumerated(<<>>), NoFaults>>,
     <<Reading([n \in {"eth0"} |-> <<5, 3>>]), ReadError,
       Enumerated(<<>>), Enumerated(<<>>), NoFaults>>}

\* once MaxCycles cycles have been counted the platform only gives the idle
\* answers
CyclesNow == IF ncycles < MaxCycles THEN Cycles ELSE IdleCycles

\* the clock units that stand for the 300 seconds of
\* get_active_flows(timeout_sec=300)
ActiveTimeout == CleanupTimeout

\* how a do_sample call ended: the exception its handler printed (None when
\* the try block completed), whether an exception left the call, whether the
\* deep-capture read failed, and how many calls ended in the handler so far
NotRun ==
    [called |-> FALSE, error |-> None, escaped |-> FALSE,
     capture_error |-> FALSE, failures |-> 0]

\* if stats: self.repository.save_interface_samples_batch(stats)
save_error(result, faults) ==
    IF DOMAIN result # {} /\ faults.save # "ok" THEN faults.save ELSE None

\* mutant: the handler of do_sample only knows the psutil errors
is_handled_psutil(error) == is_caught(error)

\* except Exception as e
is_handled(error) == error \in Exceptions

\* except Exception as e: print(...); self.error_occurred.emit(str(e))
on_exception(before, error) ==
    [called |-> TRUE, error |-> error, escaped |-> ~is_handled(error),
     capture_error |-> FALSE,
     failures |-> Min(before.failures + 1, MaxCycles)]

\* if self.capture_engine.is_available(): try: ... except Exception: print
capture_error(faults) == faults.capture \notin {"unavailable", "empty"}

\* the try block of do_sample ran to its end
completed(before, faults) ==
    [called |-> TRUE, error |-> None, escaped |-> FALSE,
     capture_error |-> capture_error(faults), failures |-> before.failures]

\* active_flows = self.aggregator.get_active_flows(timeout_sec=300);
\* if active_flows: self.flows_updated.emit(active_flows)
\* (the list holds the FlowStat objects of the flow table themselves)
emitted_flows(self, before, t) ==
    LET active_flows == get_active_flows(self, ActiveTimeout, t)
    IN  IF active_flows # <<>> THEN active_flows ELSE before

MonitorWorker ==
    [is_running |-> FALSE, outcome |-> NotRun, held |-> <<>>]

Worker ==
    [is_running |-> is_running, outcome |-> outcome, held |-> held,
     samples |-> samples, stats |-> stats,
     prev_counters |-> prev_counters, connection_bytes |-> connection_bytes,
     flows |-> flows, hosts |-> hosts]

\* one whole do_sample call
do_sample(self, cycle, t) ==
    IF ~self.is_running THEN self
    ELSE LET r == sampler_sample(self.samples, cycle[1], t)
             error == save_error(r.result, cycle[5])
             c == get_active_connections(
                      [prev_counters |-> self.prev_counters,
                       connection_bytes |-> self.connection_bytes],
                      cycle[2], cycle[3], cycle[4], t)
             a == update_flows([flows |-> self.flows, hosts |-> self.hosts],
                               c.result, t)
         IN  IF error # None
             THEN [self EXCEPT !.samples = r.samples,
                               !.stats = Returned(r.result),
                               !.outcome = on_exception(self.outcome, error)]
             ELSE [is_running |-> self.is_running,
                   outcome |-> completed(self.outcome, cycle[5]),
                   held |-> emitted_flows(a, self.held, t),
                   samples |-> r.samples,
                   stats |-> Returned(r.result),
                   prev_counters |-> c.prev_counters,
                   connection_bytes |-> c.connection_bytes,
                   flows |-> a.flows,
                   hosts |-> a.hosts]

WorkerInit ==
    /\ is_running = MonitorWorker.is_running
    /\ outcome = MonitorWorker.outcome
    /\ held = MonitorWorker.held

WorkerBecomes(self) ==
    /\ is_running' = self.is_running
    /\ outcome' = self.outcome
    /\ held' = self.held
    /\ samples' = self.samples
    /\ stats' = self.stats
    /\ prev_counters' = self.prev_counters
    /\ connection_bytes' = self.connection_bytes
    /\ flows' = self.flows
    /\ hosts' = self.hosts

\* The sample timer keeps firing: each timeout runs one do_sample call.
DoSample ==
    /\ is_running
    /\ \E cycle \in CyclesNow :
          /\ \E self \in {do_sample(Worker, cycle, now)} : WorkerBecomes(self)
          /\ added' = sampled(added, cycle[1], now)
          /\ rates' = last_rates(rates,
                                 sampler_sample(samples, cycle[1], now).result,
                                 cycle[1])
    /\ ncycles' = IF ncycles < MaxCycles THEN ncycles + 1 ELSE ncycles
    /\ UNCHANGED <<now, nupdates, fresh, nadds, cleared, threadvars>>

(***************************************************************************)
(* The threads of the application.  NetworkMonitorApp.__init__ moves the   *)
(* worker to worker_thread, connects Scheduler.sample_requested to         *)
(* worker.do_sample and runs _start_monitoring, which starts the thread,   *)
(* the worker and the sample timer and then calls do_sample itself, on the *)
(* main thread.  main() enters the event loop (app.exec()) only after the  *)
(* constructor has returned.  A QTimer's timeout is delivered by the event *)
(* loop of the thread the timer lives in, here the main thread; the signal *)
(* it emits reaches the worker as an event queued to worker_thread, whose  *)
(* event loop runs one handler at a time.  Each thread's position inside   *)
(* do_sample is a frame: the step it is about to take and its locals.      *)
(***************************************************************************)
Threads == {"main", "worker"}

MaxQueued == 2      \* do_sample calls waiting in the worker thread's queue

IdleFrame == [pc |-> "idle", cycle |-> <<>>, connections |-> <<>>]

ThreadInit ==
    /\ main_pc = "start_thread"
    /\ frames = [th \in Threads |-> IdleFrame]
    /\ timer_active = FALSE
    /\ thread_started = FALSE
    /\ queued = 0

in_do_sample(th) == frames[th].pc # "idle"

\* mutant: the timer's timeout is delivered as soon as the timer is started
in_event_loop_any(pc) == pc # "closed"

\* sys.exit(app.exec()): the main thread dispatches events
in_event_loop(pc) == pc = "exec"

\* a thread calls do_sample: if not self.is_running: return
Enter(th) ==
    IF is_running
    THEN \E cycle \in CyclesNow :
            frames' = [frames EXCEPT ![th] = [pc |-> "sample",
                                              cycle |-> cycle,
                                              connections |-> <<>>]]
    ELSE frames' = frames

\* a thread leaves do_sample
Leave(th) ==
    /\ frames' = [frames EXCEPT ![th] = IdleFrame]
    /\ ncycles' = IF ncycles < MaxCycles THEN ncycles + 1 ELSE ncycles

\* self.worker_thread.start()
MainStartThread ==
    /\ main_pc = "start_thread"
    /\ thread_started' = TRUE
    /\ main_pc' = "start_worker"
    /\ UNCHANGED <<frames, timer_active, queued, workervars, aggvars, fresh,
                   ratevars, samplervars>>

\* self.worker.start_worker()
MainStartWorker ==
    /\ main_pc = "start_worker"
    /\ is_running' = TRUE
    /\ main_pc' = "start_sampling"
    /\ UNCHANGED <<frames, timer_active, thread_started, queued, outcome,
                   held, aggvars, fresh, ratevars, samplervars>>

\* self.scheduler.start_sampling(config.sampling_interval_ms)
MainStartSampling ==
    /\ main_pc = "start_sampling"
    /\ timer_active' = TRUE
    /\ main_pc' = "call"
    /\ UNCHANGED <<frames, thread_started, queued, workervars, aggvars,
                   fresh, ratevars, samplervars>>

\* self.worker.do_sample(), called by the main thread itself
MainCall ==
    /\ main_pc = "call"
    /\ Enter("main")
    /\ main_pc' = "in_call"
    /\ UNCHANGED <<timer_active, thread_started, queued, workervars, aggvars,
                   fresh, ratevars, samplervars>>

\* the call returns, the constructor returns, main() runs app.exec()
MainExec ==
    /\ main_pc = "in_call"
    /\ ~in_do_sample("main")
    /\ main_pc' = "exec"
    /\ UNCHANGED <<frames, timer_active, thread_started, queued, workervars,
                   aggvars, fresh, ratevars, samplervars>>

\* sample_timer times out: _on_sample_timeout emits sample_requested, and
\* the call of worker.do_sample is queued to the worker's thread
SampleTimeout ==
    /\ timer_active
    /\ in_event_loop(main_pc)
    /\ queued < MaxQueued
    /\ queued' = queued + 1
    /\ UNCHANGED <<main_pc, frames, timer_active, thread_started, workervars,
                   aggvars, fresh, ratevars, samplervars>>

\* the event loop of worker_thread takes the next queued call
WorkerDispatch ==
    /\ thread_started
    /\ queued > 0
    /\ ~in_do_sample("worker")
    /\ queued' = queued - 1
    /\ Enter("worker")
    /\ UNCHANGED <<main_pc, timer_active, thread_started, workervars, aggvars,
                   fresh, ratevars, samplervars>>

\* closeEvent: stop_sampling(), stop_worker(), worker_thread.quit()
CloseEvent ==
    /\ in_event_loop(main_pc)
    /\ timer_active' = FALSE
    /\ is_running' = FALSE
    /\ thread_started' = FALSE
    /\ main_pc' = "closed"
    /\ UNCHANGED <<frames, queued, outcome, held, aggvars, fresh, ratevars,
                   samplervars>>

\* stats = self.sampler.sample(); if stats: save, emit, check_alerts
StepSample ==
    \E th \in Threads :
        /\ frames[th].pc = "sample"
        /\ LET cycle == frames[th].cycle
               r == sampler_sample(samples, cycle[1], now)
               error == save_error(r.result, cycle[5])
           IN  /\ samples' = r.samples
               /\ stats' = Returned(r.result)
               /\ added' = sampled(added, cycle[1], now)
               /\ rates' = last_rates(rates, r.result, cycle[1])
               /\ IF error # None
                  THEN /\ outcome' = on_exception(outcome, error)
                       /\ Leave(th)
                  ELSE /\ frames' = [frames EXCEPT ![th].pc = "track"]
                       /\ UNCHANGED <<outcome, ncycles>>
        /\ UNCHANGED <<is_running, held, aggvars, fresh, nadds, cleared,
                       trackervars, main_pc, timer_active, thread_started,
                       queued>>

\* connections = self.sampler.get_active_connections()
StepTrack ==
    \E th \in Threads :
        /\ frames[th].pc = "track"
        /\ LET cycle == frames[th].cycle
               c == get_active_connections(Tracker, cycle[2], cycle[3],
                                           cycle[4], now)
           IN  /\ TrackerBecomes(c)
               /\ frames' = [frames EXCEPT ![th].pc = "update",
                                           ![th].connections = c.result]
        /\ UNCHANGED <<stats, ncycles, workervars, aggvars, fresh, ratevars,
                       main_pc, timer_active, thread_started, queued>>

\* for flow in connections: self.aggregator.update_flow(flow)
StepUpdate ==
    \E th \in Threads :
        /\ frames[th].pc = "update"
        /\ Becomes(update_flows(Self, frames[th].connections, now))
        /\ frames' = [frames EXCEPT ![th].pc = "query"]
        /\ UNCHANGED <<now, nupdates, fresh, ratevars, samplervars,
                       workervars, main_pc, timer_active, thread_started,
                       queued>>

\* the deep-capture read, then active_flows = get_active_flows(300) and
\* flows_updated.emit(active_flows); the call returns
StepQuery ==
    \E th \in Threads :
        /\ frames[th].pc = "query"
        /\ held' = emitted_flows(Self, held, now)
        /\ outcome' = completed(outcome, frames[th].cycle[5])
        /\ Leave(th)
        /\ UNCHANGED <<is_running, aggvars, fresh, ratevars, trackervars,
                       stats, main_pc, timer_active, thread_started, queued>>

(***************************************************************************)
(* Specifications.                                                         *)
(***************************************************************************)
Init ==
    /\ AggInit
    /\ fresh = NoFresh
    /\ RateInit
    /\ SamplerInit
    /\ WorkerInit
    /\ ThreadInit

Next == Tick \/ UpdateFlow \/ CleanupOldFlows \/ CleanupOldHosts \/ Clear

Spec == Init /\ [][Next]_vars

TwinNext ==
    \/ Tick
    \/ TwinUpdateFlow
    \/ TwinCleanupOldFlows
    \/ TwinCleanupOldHosts
    \/ TwinClear

TwinSpec == Init /\ [][TwinNext]_vars

RateNext == AddSample \/ ClearSamples

RateSpec == Init /\ [][RateNext]_vars

TrackerNext == UpdateConnectionStats \/ UpdateConnectionStatsReadError

TrackerSpec == Init /\ [][TrackerNext]_vars

SamplerNext == Tick \/ SampleInterfaces \/ GetActiveConnections

SamplerSpec == Init /\ [][SamplerNext]_vars

\* _start_monitoring has called start_worker()
AppInit ==
    /\ AggInit
    /\ fresh = NoFresh
    /\ RateInit
    /\ SamplerInit
    /\ is_running = TRUE
    /\ outcome = MonitorWorker.outcome
    /\ held = MonitorWorker.held
    /\ ThreadInit

\* the Aggregator under update_flow and the two cleanups
AgingNext == Tick \/ UpdateFlow \/ CleanupOldFlows \/ CleanupOldHosts

AgingSpec == Init /\ [][AgingNext]_vars

AppNext == Tick \/ DoSample

\* The Qt event loop keeps delivering the sample timer's timeouts, and time
\* passes.
AppSpec == AppInit /\ [][AppNext]_vars /\ WF_vars(Tick) /\ WF_vars(DoSample)

\* (the clock stands still: no step of a cycle depends on how long the
\* threads take)
ThreadNext ==
    \/ MainStartThread
    \/ MainStartWorker
    \/ MainStartSampling
    \/ MainCall
    \/ MainExec
    \/ SampleTimeout
    \/ WorkerDispatch
    \/ CloseEvent
    \/ StepSample
    \/ StepTrack
    \/ StepUpdate
    \/ StepQuery

ThreadSpec == Init /\ [][ThreadNext]_vars

(***************************************************************************)
(* Properties of the Aggregator.  The ones about a handler are stated as   *)
(* state predicates over every call the handler accepts in the current     *)
(* state: the table the handler returns is compared with the table before  *)
(* the call.                                                               *)
(***************************************************************************)
SameKey(a, b) ==
    /\ a.protocol = b.protocol
    /\ a.local_ip = b.local_ip
    /\ a.local_port = b.local_port
    /\ a.remote_ip = b.remote_ip
    /\ a.remote_port = b.remote_port

HasKey(f, key) ==
    /\ f.protocol = key[1]
    /\ f.local_ip = key[2]
    /\ f.local_port = key[3]
    /\ f.remote_ip = key[4]
    /\ f.remote_port = key[5]

Age(x) == now - x.last_seen

\* C1: update_flow on a key already in the flow table adds the incoming
\* flow's bytes_up, bytes_down, packets_up and packets_down onto the stored
\* entry and sets its last_seen to the time of the call, whatever the
\* incoming flow's last_seen is.
C1_MergeAccumulates ==
    \A flow \in FlowInputs(now) : \A i \in 1..Len(flows) :
        SameKey(flows[i], flow) =>
            \A after \in {update_flow(Self, flow, now).flows} :
            /\ Len(after) = Len(flows)
            /\ after[i].bytes_up = flows[i].bytes_up + flow.bytes_up
            /\ after[i].bytes_down = flows[i].bytes_down + flow.bytes_down
            /\ after[i].packets_up = flows[i].packets_up + flow.packets_up
            /\ after[i].packets_down = flows[i].packets_down + flow.packets_down
            /\ after[i].last_seen = now

\* The entry of KeyAB after both observations of it were merged (1+0 bytes
\* up, 0+2 bytes down; no single input carries these counters), the second
\* one later than the insert.
C1_Witness ==
    \E i \in 1..Len(flows) :
        /\ HasKey(flows[i], KeyAB)
        /\ flows[i].bytes_up = 1
        /\ flows[i].bytes_down = 2
        /\ flows[i].packets_up = 1
        /\ flows[i].packets_down = 1
        /\ flows[i].start_time < now
        /\ flows[i].last_seen = now

HostTotals(hs, ip) ==
    IF \E i \in 1..Len(hs) : hs[i].ip = ip
    THEN LET h == hs[CHOOSE i \in 1..Len(hs) : hs[i].ip = ip] IN
         <<h.total_bytes_up, h.total_bytes_down, h.packets_up, h.packets_down>>
    ELSE <<0, 0, 0, 0>>

\* C2: immediately after every update_flow(flow) the HostStat of
\* flow.remote_ip exists, its byte and packet totals have grown by exactly
\* the incoming flow's values, and its flow_count is the number of
\* flow-table entries with that remote_ip.
C2_HostRollup ==
    \A flow \in FlowInputs(now) :
        \A after \in {update_flow(Self, flow, now)} :
        LET ip == flow.remote_ip
            old == HostTotals(hosts, ip)
            new == HostTotals(after.hosts, ip)
            at == {j \in 1..Len(after.hosts) : after.hosts[j].ip = ip}
        IN  /\ Cardinality(at) = 1
            /\ new[1] = old[1] + flow.bytes_up
            /\ new[2] = old[2] + flow.bytes_down
            /\ new[3] = old[3] + flow.packets_up
            /\ new[4] = old[4] + flow.packets_down
            /\ \A j \in at :
                  after.hosts[j].flow_count =
                     Cardinality({i \in 1..Len(after.flows) :
                                     after.flows[i].remote_ip = ip})

\* Two distinct keys to host B, each with bytes_up 1, rolled into one
\* HostStat with total_bytes_up 2 and flow_count 2.
C2_Witness ==
    \E j \in 1..Len(hosts), i, k \in 1..Len(flows) :
        /\ hosts[j].ip = "B"
        /\ hosts[j].total_bytes_up = 2
        /\ hosts[j].flow_count = 2
        /\ HasKey(flows[i], KeyAB) /\ flows[i].bytes_up = 1
        /\ HasKey(flows[k], KeyABu) /\ flows[k].bytes_up = 1

\* C3: update_flow on a key absent from the flow table stores the incoming
\* FlowStat verbatim, and get_active_flows(timeout_sec) returns exactly the
\* entries whose last_seen is less than timeout_sec before the current time
\* (an entry exactly timeout_sec old is not within it).
C3_InsertVerbatimActiveExact ==
    /\ \A flow \in FlowInputs(now) :
          (\A i \in 1..Len(flows) : ~SameKey(flows[i], flow)) =>
              update_flow(Self, flow, now).flows = flows \o <<flow>>
    /\ \A timeout_sec \in Timeouts :
          \A res \in {get_active_flows(Self, timeout_sec, now)} :
          /\ \A i \in 1..Len(flows) :
                (\E p \in 1..Len(res) : res[p] = flows[i])
                    <=> Age(flows[i]) < timeout_sec
          /\ Len(res) =
                Cardinality({i \in 1..Len(flows) : Age(flows[i]) < timeout_sec})

\* A flow stored as it came (last_seen is still its start_time), now 2 time
\* units old: not active for timeout 1, active for timeout 3.
C3_Witness ==
    \E i \in 1..Len(flows) :
        /\ flows[i].last_seen = flows[i].start_time
        /\ flows[i].bytes_up + flows[i].bytes_down > 0
        /\ Age(flows[i]) = 2
        /\ \A p \in 1..Len(get_active_flows(Self, 1, now)) :
              get_active_flows(Self, 1, now)[p] # flows[i]
        /\ \E p \in 1..Len(get_active_flows(Self, 3, now)) :
              get_active_flows(Self, 3, now)[p] = flows[i]

Ranked == {"total_bytes", "upload", "download"}

Quantity(h, by) ==
    IF by = "total_bytes" THEN h.total_bytes_up + h.total_bytes_down
    ELSE IF by = "upload" THEN h.total_bytes_up
    ELSE h.total_bytes_down

ActiveHosts(timeout_sec) ==
    {i \in 1..Len(hosts) : Age(hosts[i]) < timeout_sec}

\* C4: for by in {"total_bytes", "upload", "download"} get_top_hosts returns
\* only hosts seen within timeout_sec, in non-increasing order of the
\* selected quantity, and as many as count allows: the count highest ones.
C4_TopHostsRanked ==
    \A timeout_sec \in Timeouts : \A act \in {ActiveHosts(timeout_sec)} :
    \A by \in Ranked, count \in Counts :
    \A res \in {get_top_hosts(Self, count, by, timeout_sec, now)} :
        /\ Len(res) = Min(count, Cardinality(act))
        /\ \A p \in 1..Len(res) : \E i \in act : hosts[i] = res[p]
        /\ \A p \in 1..Len(res), q \in 1..Len(res) :
              p < q => /\ Quantity(res[p], by) >= Quantity(res[q], by)
                       /\ res[p].ip # res[q].ip
        /\ \A i \in act :
              \/ \E p \in 1..Len(res) : res[p] = hosts[i]
              \/ \A p \in 1..Len(res) :
                    Quantity(res[p], by) >= Quantity(hosts[i], by)

\* Three active hosts whose combined bytes are 1, 2 and 0 in table order:
\* count 2 gives the host with 2, then the host with 1.
C4_Witness ==
    /\ Len(hosts) = 3
    /\ total_bytes(hosts[1]) = 1
    /\ total_bytes(hosts[2]) = 2
    /\ total_bytes(hosts[3]) = 0
    /\ get_top_hosts(Self, 2, "total_bytes", MaxTimeout, now)
          = <<hosts[2], hosts[1]>>

Unrecognized == Selectors \ Ranked

ActiveHostList(timeout_sec) ==
    SelectSeq(hosts, LAMBDA h : Age(h) < timeout_sec)

\* C5 as claimed: with an unrecognized by, get_top_hosts returns the whole
\* active host set, unsorted and not truncated to count.
C5_UnrecognizedUntruncated ==
    \A by \in Unrecognized, count \in Counts, timeout_sec \in Timeouts :
        get_top_hosts(Self, count, by, timeout_sec, now)
            = ActiveHostList(timeout_sec)

\* C5 as amended: with an unrecognized by, get_top_hosts returns the first
\* count hosts of the active host set in host-table order (unsorted, but
\* truncated to count).
C5_UnrecognizedUnsortedPrefix ==
    \A timeout_sec \in Timeouts : \A act \in {ActiveHostList(timeout_sec)} :
    \A by \in Unrecognized, count \in Counts :
    \A res \in {get_top_hosts(Self, count, by, timeout_sec, now)} :
        /\ Len(res) = Min(count, Len(act))
        /\ \A p \in 1..Len(res) : res[p] = act[p]

\* Two active hosts, the first in the table with fewer bytes: count 1 and an
\* unrecognized selector give the first of the table, not the larger one.
C5_Witness ==
    /\ Len(hosts) >= 2
    /\ Age(hosts[1]) < MaxTimeout
    /\ Age(hosts[2]) < MaxTimeout
    /\ total_bytes(hosts[1]) < total_bytes(hosts[2])
    /\ get_top_hosts(Self, 1, "packets", MaxTimeout, now) = <<hosts[1]>>

\* C6: after cleanup_old_flows(timeout_sec=0) the flow table is empty,
\* whatever flows it held before the call.
C6_CleanupZeroEmpties ==
    cleanup_old_flows(Self, 0, now).flows = <<>>

\* C7: after clear() every query returns an empty result, and from then on
\* the cleared Aggregator and one constructed at that moment hold the same
\* tables under the same calls (the queries read nothing but the tables and
\* the clock, so they answer alike).
C7_ClearedIsFresh ==
    /\ \A c \in {clear(Self)} :
       /\ \A timeout_sec \in Timeouts :
             get_active_flows(c, timeout_sec, now) = <<>>
       /\ \A count \in Counts, by \in Selectors, timeout_sec \in Timeouts :
             get_top_hosts(c, count, by, timeout_sec, now) = <<>>
       /\ \A ip \in IPs : get_flow_by_remote(c, ip) = <<>>
    /\ fresh.on =>
       /\ flows = fresh.flows
       /\ hosts = fresh.hosts

\* An Aggregator that was cleared and then updated again, beside the one
\* constructed at the clear: after all three updates of the behaviour both
\* hold one flow and one host, and the ranking is not empty.
C7_Witness ==
    /\ fresh.on
    /\ nupdates = 3
    /\ Len(flows) = 1
    /\ Len(fresh.flows) = 1
    /\ Len(hosts) = 1
    /\ get_top_hosts(fresh, 1, "total_bytes", MaxTimeout, now) # <<>>

\* C8: cleanup_old_flows leaves every HostStat as it is and
\* cleanup_old_hosts leaves the flow table as it is, so a host's flow_count
\* keeps counting removed flows: it is never below the live count.
C8_CleanupFrame ==
    /\ \A timeout_sec \in Timeouts :
          /\ cleanup_old_flows(Self, timeout_sec, now).hosts = hosts
          /\ cleanup_old_hosts(Self, timeout_sec, now).flows = flows
    /\ \A j \in 1..Len(hosts) :
          hosts[j].flow_count >=
             Cardinality({i \in 1..Len(flows) :
                             flows[i].remote_ip = hosts[j].ip})

\* A host that still counts two flows after both were removed.
C8_Witness ==
    \E j \in 1..Len(hosts) :
        /\ hosts[j].flow_count = 2
        /\ \A i \in 1..Len(flows) : flows[i].remote_ip # hosts[j].ip

\* C9: the key is asymmetric.  update_flow merges into an entry if and only
\* if all five key fields are equal; otherwise it adds an entry.  Every
\* entry with another key, and every host but flow.remote_ip, is untouched,
\* and the keys of the table stay pairwise distinct.
C9_KeyAsymmetric ==
    /\ \A i, k \in 1..Len(flows) : SameKey(flows[i], flows[k]) => i = k
    /\ \A flow \in FlowInputs(now) :
          \A after \in {update_flow(Self, flow, now)} :
          LET known == \E i \in 1..Len(flows) : SameKey(flows[i], flow)
          IN  /\ Len(after.flows) = IF known THEN Len(flows) ELSE Len(flows) + 1
              /\ \A i \in 1..Len(flows) :
                    ~SameKey(flows[i], flow) => after.flows[i] = flows[i]
              /\ \A j \in 1..Len(hosts) :
                    hosts[j].ip # flow.remote_ip => after.hosts[j] = hosts[j]

\* (TCP, A, 1, B, 2) and (TCP, B, 2, A, 1) as two entries, each with the
\* counters of its own observation, rolled into host B and host A.
C9_Witness ==
    \E i, k \in 1..Len(flows), j, l \in 1..Len(hosts) :
        /\ HasKey(flows[i], KeyAB) /\ flows[i].bytes_up = 1
        /\ flows[i].bytes_down = 0
        /\ HasKey(flows[k], KeyBA) /\ flows[k].bytes_up = 0
        /\ flows[k].bytes_down = 2
        /\ hosts[j].ip = "B" /\ total_bytes(hosts[j]) = 1
        /\ hosts[l].ip = "A" /\ total_bytes(hosts[l]) = 2

(***************************************************************************)
(* Properties of the RateCalculator.                                       *)
(***************************************************************************)
LastTwo(s) == IF Len(s) <= 2 THEN s ELSE SubSeq(s, Len(s) - 1, Len(s))

Kept(n) == IF n \in DOMAIN samples THEN samples[n] ELSE <<>>

\* C10: after any sequence of add_sample and clear calls the RateCalculator
\* holds at most two samples per source, and they are the most recently
\* added samples of that source (since its last clear), in insertion order.
C10_TwoMostRecent ==
    \A n \in Sources :
        /\ Len(Kept(n)) <= 2
        /\ Kept(n) = LastTwo(added[n])

\* A source that received three different samples and holds the last two.
C10_Witness ==
    \E n \in Sources :
        /\ Len(added[n]) = 3
        /\ added[n][1] # added[n][2]
        /\ added[n][1] # added[n][3]
        /\ samples[n] = <<added[n][2], added[n][3]>>

Last(s) == s[Len(s)]

\* the last add_sample call was made on source n
LastCallOn(n) == rates.interface_name = n

\* C11: add_sample returns (0.0, 0.0) on the first call for a source after
\* construction and on the first call after clear(source); clear(source)
\* drops that source's history only, and every other source keeps its
\* samples and so the rate its next add_sample returns.
C11_FirstSampleZeroClearLocal ==
    /\ \A n \in Sources :
          /\ added[n] = <<>> =>
                \A sample \in SampleInputs :
                    add_sample(samples, n, sample) = <<Zero, Zero>>
          /\ LastCallOn(n) /\ Len(added[n]) = 1 =>
                rates.up = Zero /\ rates.down = Zero
    /\ \A n \in Sources : \A c \in {clear_samples(samples, n)} :
          /\ n \notin DOMAIN c
          /\ \A m \in Sources \ {n} :
                /\ (m \in DOMAIN c) <=> (m \in DOMAIN samples)
                /\ m \in DOMAIN samples => c[m] = samples[m]
                /\ \A sample \in SampleInputs :
                      add_sample(c, m, sample) = add_sample(samples, m, sample)

\* A source that was cleared and then sampled once, with nonzero counters:
\* the call returned (0.0, 0.0), and the other source still holds a sample.
C11_Witness ==
    \E n \in Sources, m \in Sources :
        /\ n # m
        /\ n \in cleared
        /\ LastCallOn(n)
        /\ Len(added[n]) = 1
        /\ added[n][1].bytes_sent > 0
        /\ rates.up = Zero /\ rates.down = Zero
        /\ m \in DOMAIN samples /\ Len(samples[m]) = 1

\* x is max(0, delta_bytes * 8 / (delta_seconds * 1,000,000))
IsRate(x, delta_bytes, delta_seconds) ==
    /\ x[2] > 0
    /\ x[1] >= 0
    /\ delta_bytes < 0 => x = Zero
    /\ delta_bytes >= 0 =>
          x[1] * delta_seconds * 1000000 = x[2] * delta_bytes * 8

\* C12: when the new sample is later than the source's previous sample, each
\* direction's rate is max(0, delta_bytes*8 / (delta_seconds*1,000,000))
\* over the two most recently added samples: never negative, 0 for a
\* direction whose counter went down while the other direction is still
\* computed, and 1.0 Mbps for 125,000 bytes sent in 1 second.
C12_RateFormula ==
    /\ rates.up[1] >= 0 /\ rates.up[2] > 0
    /\ rates.down[1] >= 0 /\ rates.down[2] > 0
    /\ \A n \in Sources, sample \in SampleInputs :
          added[n] # <<>> /\ sample.timestamp > Last(added[n]).timestamp =>
              \A r \in {add_sample(samples, n, sample)} :
              LET prev == Last(added[n])
                  dt == sample.timestamp - prev.timestamp
                  ds == sample.bytes_sent - prev.bytes_sent
                  dr == sample.bytes_recv - prev.bytes_recv
              IN  /\ IsRate(r[1], ds, dt)
                  /\ IsRate(r[2], dr, dt)
                  /\ ds = 125000 /\ dt = 1 => r[1] = <<1, 1>>

\* One second apart, 125,000 bytes more sent and the receive counter reset:
\* the call returned 1.0 Mbps up and 0.0 down.
C12_Witness ==
    \E n \in Sources :
        /\ LastCallOn(n)
        /\ Len(added[n]) >= 2
        /\ LET curr == added[n][Len(added[n])]
               prev == added[n][Len(added[n]) - 1]
           IN  /\ curr.timestamp - prev.timestamp = 1
               /\ curr.bytes_sent - prev.bytes_sent = 125000
               /\ curr.bytes_recv - prev.bytes_recv < 0
        /\ rates.up = <<1, 1>>
        /\ rates.down = Zero

\* C13: when the new sample's timestamp is equal to or earlier than the
\* source's previous sample's, add_sample returns (0.0, 0.0), whatever the
\* byte deltas are (the return value is defined: nothing is divided by the
\* elapsed time).
C13_NoElapsedTimeZero ==
    /\ \A n \in Sources, sample \in SampleInputs :
          added[n] # <<>> /\ sample.timestamp <= Last(added[n]).timestamp =>
              add_sample(samples, n, sample) = <<Zero, Zero>>
    /\ \A n \in Sources :
          (/\ LastCallOn(n)
           /\ Len(added[n]) >= 2
           /\ Last(added[n]).timestamp
                 <= added[n][Len(added[n]) - 1].timestamp)
              => rates.up = Zero /\ rates.down = Zero

\* A sample stamped earlier than the one before it, with both counters
\* lower: the call returned (0.0, 0.0).
C13_Witness ==
    \E n \in Sources :
        /\ LastCallOn(n)
        /\ Len(added[n]) >= 2
        /\ LET curr == added[n][Len(added[n])]
               prev == added[n][Len(added[n]) - 1]
           IN  /\ curr.timestamp < prev.timestamp
               /\ curr.bytes_sent < prev.bytes_sent
               /\ curr.bytes_recv < prev.bytes_recv
        /\ rates.up = Zero /\ rates.down = Zero

(***************************************************************************)
(* Properties of the ConnectionTracker, over every answer of the platform  *)
(* the call can get in the current state.                                  *)
(***************************************************************************)
RECURSIVE SumOver(_, _)
SumOver(f, S) ==
    IF S = {} THEN 0
    ELSE LET x == CHOOSE x \in S : TRUE IN f[x] + SumOver(f, S \ {x})

\* the interfaces of the reading that the tracker has counters for
Known(read) == DOMAIN read.counters \cap DOMAIN prev_counters

\* current counter minus stored counter, per known interface
Difference(read, dir) ==
    [n \in Known(read) |-> read.counters[n][dir] - prev_counters[n][dir]]

NonNegative(f) == [n \in DOMAIN f |-> IF f[n] < 0 THEN 0 ELSE f[n]]

\* the calls that get past both early returns
Distributing(read, enumeration) ==
    read.ok /\ _get_active_connections_5tuple(enumeration) # {}

CycleDelta(read) ==
    total_delta(prev_counters, read.counters, DOMAIN read.counters)

Total(bytes, key) == IF key \in DOMAIN bytes THEN bytes[key] ELSE <<0, 0>>

\* g is floor(total / n)
IsFloor(g, total, n) == n * g <= total /\ total < n * (g + 1)

\* C15: when n > 0 connections are active and the cycle's delta is positive
\* in some direction, every active connection's running total grows by
\* exactly floor(delta_up / n) and floor(delta_down / n), a new key starting
\* from (0, 0); the remainder is dropped: the counters the next cycle
\* measures each of these interfaces from are the ones just read.
C15_FloorShare ==
    \A read \in Readings, enumeration \in Enumerations :
        \A active \in {_get_active_connections_5tuple(enumeration)} :
        \A d \in {CycleDelta(read)} :
        active # {} /\ (d[1] > 0 \/ d[2] > 0) =>
            \A after \in {update_connection_stats(Tracker, read,
                                                  enumeration)} :
            /\ \A key \in active :
                  /\ key \in DOMAIN after.connection_bytes
                  /\ IsFloor(after.connection_bytes[key][1]
                                 - Total(connection_bytes, key)[1],
                             d[1], Cardinality(active))
                  /\ IsFloor(after.connection_bytes[key][2]
                                 - Total(connection_bytes, key)[2],
                             d[2], Cardinality(active))
            /\ \A n \in DOMAIN read.counters :
                  after.prev_counters[n] = read.counters[n]

\* A delta of (5, 3) over two new connections: each holds (2, 1), and one
\* byte of each direction is in neither total.
C15_Witness ==
    /\ ncycles = 2
    /\ DOMAIN connection_bytes = {KeyAB, KeyABu}
    /\ connection_bytes[KeyAB] = <<2, 1>>
    /\ connection_bytes[KeyABu] = <<2, 1>>
    /\ prev_counters["eth0"] = <<5, 3>>

\* C16: no update_connection_stats call removes or decreases an entry of
\* the per-connection totals; a connection that is not active in the call
\* keeps exactly its totals, and get_bytes_for_connection returns them.
C16_TotalsKept ==
    \A read \in CounterReads, enumeration \in Enumerations :
        \A after \in {update_connection_stats(Tracker, read, enumeration)} :
        \A key \in DOMAIN connection_bytes :
            /\ key \in DOMAIN after.connection_bytes
            /\ after.connection_bytes[key][1] >= connection_bytes[key][1]
            /\ after.connection_bytes[key][2] >= connection_bytes[key][2]
            /\ key \notin _get_active_connections_5tuple(enumeration) =>
                  /\ after.connection_bytes[key] = connection_bytes[key]
                  /\ get_bytes_for_connection(after, key)
                        = connection_bytes[key]

\* Two connections were credited (2, 1) each; in the third cycle only one of
\* them was active and was credited (2, 0) more: the other still has (2, 1).
C16_Witness ==
    /\ ncycles = 3
    /\ DOMAIN connection_bytes = {KeyAB, KeyABu}
    /\ connection_bytes[KeyAB] = <<4, 1>>
    /\ connection_bytes[KeyABu] = <<2, 1>>
    /\ get_bytes_for_connection(Tracker, KeyABu) = <<2, 1>>

(***************************************************************************)
(* Properties of the NetworkSampler.                                       *)
(***************************************************************************)
\* C17: when the counter read fails, sample() returns an empty mapping and
\* leaves the RateCalculator's history as it is; a successful sample() after
\* it, now or later, reports for every interface the rate between the last
\* sample added before the failure and the new reading (zero when there is
\* none or no time has passed).
C17_ReadFailureKeepsHistory ==
    \A failed \in {sampler_sample(samples, ReadError, now)} :
        /\ failed.result = <<>>
        /\ failed.samples = samples
        /\ \A read \in Readings, t \in now..MaxTime :
              \A res \in {sampler_sample(failed.samples, read, t).result} :
              /\ DOMAIN res = DOMAIN read.counters
              /\ \A n \in DOMAIN res :
                    /\ res[n].bytes_sent = read.counters[n][1]
                    /\ res[n].bytes_recv = read.counters[n][2]
                    /\ IF added[n] # <<>> /\ t > Last(added[n]).timestamp
                       THEN /\ IsRate(res[n].rate_up_mbps,
                                      read.counters[n][1]
                                         - Last(added[n]).bytes_sent,
                                      t - Last(added[n]).timestamp)
                            /\ IsRate(res[n].rate_down_mbps,
                                      read.counters[n][2]
                                         - Last(added[n]).bytes_recv,
                                      t - Last(added[n]).timestamp)
                       ELSE /\ res[n].rate_up_mbps = Zero
                            /\ res[n].rate_down_mbps = Zero

\* The last sample() call failed and returned the empty mapping; the sample
\* taken before it is still there, and a successful read now reports a
\* positive upload rate against it.
C17_Witness ==
    /\ stats = Returned(<<>>)
    /\ "eth0" \in DOMAIN samples
    /\ samples["eth0"] = <<Sample(0, 0, 0)>>
    /\ now > 0
    /\ \E read \in Readings :
          sampler_sample(samples, read, now).result["eth0"].rate_up_mbps[1] > 0

\* the connections get_active_connections is to emit a flow for
IsTracked(conn) ==
    /\ conn.status = "ESTABLISHED"
    /\ conn.laddr # NoAddr
    /\ conn.raddr # NoAddr
    /\ conn.type \in {SOCK_STREAM, SOCK_DGRAM}

FlowKey(f) ==
    <<f.protocol, f.local_ip, f.local_port, f.remote_ip, f.remote_port>>

ConnKey(conn) ==
    <<IF conn.type = SOCK_STREAM THEN "TCP" ELSE "UDP",
      conn.laddr[1], conn.laddr[2], conn.raddr[1], conn.raddr[2]>>

\* the list get_active_connections returns for this enumeration
Emitted(enumeration) ==
    get_active_connections(Tracker, ReadError, enumeration, enumeration,
                           now).result

\* C18: a failed process lookup for one connection (process gone,
\* permission denied, or any other failure) does not abort the cycle: that
\* connection is emitted with process_name and process_pid absent, and every
\* other established connection of the enumeration is emitted too.
C18_LookupFailureNeverAborts ==
    \A enumeration \in Enumerations : \A res \in {Emitted(enumeration)} :
        \A i \in 1..Len(enumeration.connections) :
            LET conn == enumeration.connections[i]
            IN  IsTracked(conn) =>
                  \E p \in 1..Len(res) :
                      /\ FlowKey(res[p]) = ConnKey(conn)
                      /\ lookup_raises(conn) =>
                            <<res[p].process_name, res[p].process_pid>>
                                = NoProcess

\* C19: get_active_connections emits exactly one FlowStat for each
\* enumerated connection that is ESTABLISHED, has both endpoints and is TCP
\* or UDP, in enumeration order, and none for any other connection; every
\* emitted FlowStat has start_time and last_seen equal to the time of the
\* call.
C19_OneFlowPerTrackedConnection ==
    \A enumeration \in Enumerations : \A res \in {Emitted(enumeration)} :
        \A tracked \in {SelectSeq(enumeration.connections, IsTracked)} :
            /\ Len(res) = Len(tracked)
            /\ \A p \in 1..Len(res) :
                  /\ p <= Len(tracked) => FlowKey(res[p]) = ConnKey(tracked[p])
                  /\ res[p].start_time = now
                  /\ res[p].last_seen = now

(***************************************************************************)
(* Properties of the running application.                                  *)
(***************************************************************************)
\* the flow table holds an entry for the key that cleanup_old_flows, called
\* now with its timeout, would delete
Stale(key) ==
    \E i \in 1..Len(flows) :
        /\ HasKey(flows[i], key)
        /\ is_expired(flows[i].last_seen, CleanupTimeout, now)

\* C20: in the running application every flow-table entry whose last_seen
\* has become older than the cleanup cutoff is eventually deleted (or is
\* observed again): the table does not retain flows that are no longer
\* observed.
C20_StaleFlowsRemoved ==
    \A key \in {KeyAB, KeyABu, KeyAC, KeyBA} : Stale(key) ~> ~Stale(key)

(***************************************************************************)
(* Properties of the threads of the application.                           *)
(***************************************************************************)
\* C21: sampling cycles never overlap: no thread is inside do_sample while
\* another thread is, and no timer-driven call is even posted while the
\* main thread runs the first cycle itself, although the sample timer is
\* started and the worker thread runs by then.
C21_CyclesNeverOverlap ==
    /\ ~(in_do_sample("main") /\ in_do_sample("worker"))
    /\ in_do_sample("main") => queued = 0

\* the main thread is in the middle of the first cycle, the timer is started
\* and the worker thread runs its event loop
C21_Witness ==
    /\ frames["main"].pc = "update"
    /\ frames["main"].connections # <<>>
    /\ timer_active
    /\ thread_started
    /\ is_running

\* C22: a query result already handed to a consumer is a snapshot: the
\* FlowStat values of the list that flows_updated last delivered stay as
\* they were when get_active_flows returned them, whatever update_flow
\* does afterwards.  (The list holds the entries of the flow table
\* themselves, and no entry is ever removed here, so what the consumer reads
\* through a held FlowStat is the table's entry for its key.)
C22_ResultsAreSnapshots ==
    \A p \in 1..Len(held) :
        \A i \in 1..Len(flows) :
            SameKey(flows[i], held[p]) => flows[i] = held[p]

(***************************************************************************)
(* Properties of the sampling cycle.                                       *)
(***************************************************************************)
TrackerOf(self) ==
    [prev_counters |-> self.prev_counters,
     connection_bytes |-> self.connection_bytes]

AggregatorOf(self) == [flows |-> self.flows, hosts |-> self.hosts]

\* the save of the interface samples raises in this cycle
SaveRaises(self, cycle) ==
    save_error(sampler_sample(self.samples, cycle[1], now).result,
               cycle[5]) # None

\* the cycle ran the whole pipeline on the worker it started from
FullPipeline(self, cycle, after) ==
    \A c \in {get_active_connections(TrackerOf(self), cycle[2], cycle[3],
                                     cycle[4], now)} :
        /\ after.outcome.error = None
        /\ after.samples = sampler_sample(self.samples, cycle[1], now).samples
        /\ TrackerOf(after) = [prev_counters |-> c.prev_counters,
                               connection_bytes |-> c.connection_bytes]
        /\ AggregatorOf(after) = update_flows(AggregatorOf(self), c.result, now)

\* C23: no failure inside a sampling cycle (counter read, connection
\* enumeration, persistence save, deep-capture read) leaves do_sample or
\* stops the worker: a cycle whose counter read fails reports no interface
\* statistics and keeps the sample history, a cycle whose save fails leaves
\* tracker and aggregator as they were, and in every state the worker
\* reaches, so also in the state a failed cycle leaves, a cycle runs the
\* whole pipeline unless its own save fails.
C23_FailuresStayInsideTheCycle ==
    /\ ~outcome.escaped
    /\ is_running
    /\ \A c1 \in Cycles \cup IdleCycles :
       \A failed \in {do_sample(Worker, c1, now)} :
          /\ ~failed.outcome.escaped
          /\ failed.is_running
          /\ ~c1[1].ok => /\ failed.stats = Returned(<<>>)
                          /\ failed.samples = samples
          /\ SaveRaises(Worker, c1) =>
                /\ failed.outcome.error = c1[5].save
                /\ TrackerOf(failed) = Tracker
                /\ AggregatorOf(failed) = Self
          /\ ~SaveRaises(Worker, c1) => FullPipeline(Worker, c1, failed)

\* a cycle has run the whole pipeline after an earlier cycle ended in the
\* handler of do_sample, and after a deep-capture read had failed
C23_Witness ==
    /\ outcome.called
    /\ outcome.error = None
    /\ outcome.failures > 0
    /\ outcome.capture_error
    /\ flows # <<>>
    /\ held # <<>>

\* C24: fed only by get_active_connections once per cycle, the Aggregator
\* never stores more bytes for a key than the ConnectionTracker's running
\* totals for that key.
C24_FlowBytesWithinTrackerTotals ==
    \A i \in 1..Len(flows) :
        \A total \in {get_bytes_for_connection(Tracker, FlowKey(flows[i]))} :
            /\ flows[i].bytes_up <= total[1]
            /\ flows[i].bytes_down <= total[2]

(***************************************************************************)
(* Further properties of the ConnectionTracker.                            *)
(***************************************************************************)
\* C25: every update_connection_stats call that reads the interface
\* counters stores them as the previous counters of the next call, whatever
\* connections it finds, so that the next delta only covers the bytes
\* counted since this call.
C25_SuccessfulReadStoresCounters ==
    \A read \in Readings, enumeration \in Enumerations :
        \A after \in {update_connection_stats(Tracker, read, enumeration)} :
            \A n \in DOMAIN read.counters :
                /\ n \in DOMAIN after.prev_counters
                /\ after.prev_counters[n] = read.counters[n]

(***************************************************************************)
(* Properties of the Aggregator under expiry.                              *)
(***************************************************************************)
\* the <<bytes_up, bytes_down, packets_up, packets_down>> sums over the
\* flow-table entries with this remote_ip
RECURSIVE FlowTotals(_, _)
FlowTotals(fl, ip) ==
    IF fl = <<>> THEN <<0, 0, 0, 0>>
    ELSE LET rest == FlowTotals(Tail(fl), ip)
             f == Head(fl)
         IN  IF f.remote_ip = ip
             THEN <<rest[1] + f.bytes_up, rest[2] + f.bytes_down,
                    rest[3] + f.packets_up, rest[4] + f.packets_down>>
             ELSE rest

\* C26: after any sequence of update_flow, cleanup_old_flows and
\* cleanup_old_hosts calls, every host of the host table has byte and packet
\* totals that are at least the sums over the flow-table entries with its
\* remote_ip.
C26_HostCoversItsFlows ==
    \A i \in 1..Len(hosts) :
        \A sum \in {FlowTotals(flows, hosts[i].ip)} :
            /\ hosts[i].total_bytes_up >= sum[1]
            /\ hosts[i].total_bytes_down >= sum[2]
            /\ hosts[i].packets_up >= sum[3]
            /\ hosts[i].packets_down >= sum[4]

\* the host table has an entry for the remote_ip of this flow
HasHost(f) == HostIndex(hosts, f.remote_ip) # 0

HostOf(f) == hosts[HostIndex(hosts, f.remote_ip)]

\* C27 as claimed: for every timeout T, a flow that get_active_flows(T)
\* returns has a host-table entry, and that host passes the freshness
\* filter of get_top_hosts(timeout_sec=T).
C27_ActiveFlowHasActiveHost ==
    \A timeout_sec \in Timeouts :
        \A act \in {get_active_flows(Self, timeout_sec, now)} :
            \A p \in 1..Len(act) :
                /\ HasHost(act[p])
                /\ is_active(HostOf(act[p]).last_seen, timeout_sec, now)

\* C27, amended: for every timeout T, a flow that get_active_flows(T)
\* returns and whose remote_ip has a host-table entry has a host that passes
\* the freshness filter of get_top_hosts(timeout_sec=T), the host having
\* been seen no earlier than the flow.
C27_PresentHostOfActiveFlowIsActive ==
    /\ \A i \in 1..Len(flows) :
          HasHost(flows[i]) => HostOf(flows[i]).last_seen >= flows[i].last_seen
    /\ \A timeout_sec \in Timeouts :
          \A act \in {get_active_flows(Self, timeout_sec, now)} :
              \A p \in 1..Len(act) :
                  HasHost(act[p]) =>
                      is_active(HostOf(act[p]).last_seen, timeout_sec, now)

\* a flow that was not seen since a clock unit ago is active under a
\* timeout of two, and its host, removed and created again by a later flow,
\* was seen after it
C27_Witness ==
    \E i \in 1..Len(flows) :
        /\ Age(flows[i]) = 1
        /\ flows[i] \in {get_active_flows(Self, 2, now)[p] :
                            p \in 1..Len(get_active_flows(Self, 2, now))}
        /\ HasHost(flows[i])
        /\ HostOf(flows[i]).last_seen > flows[i].last_seen
        /\ HostOf(flows[i]).total_bytes_up < FlowTotals(flows, flows[i].remote_ip)[1]

\* the flows of a list
Elements(s) == {s[p] : p \in 1..Len(s)}

C29_RateAgainstPrecedingCall ==
    /\ \A n \in Sources, sample \in SampleInputs :
          \A after \in {add_sample_samples(samples, n, sample)} :
              /\ Last(after[n]) = sample
              /\ \A next \in Sampled("lo") :
                    add_sample(after, n, next) = rate_of(<<sample, next>>)
    /\ \A n \in Sources :
          LastCallOn(n) /\ Len(added[n]) >= 2 =>
              <<rates.up, rates.down>>
                  = rate_of(<<added[n][Len(added[n]) - 1], Last(added[n])>>)

\* the call before the last returned (0.0, 0.0) for a timestamp that was not
\* later than its predecessor's, and the last call returned a rate against
\* that sample: against the one before it no time would have elapsed
C29_Witness ==
    \E n \in Sources :
        /\ LastCallOn(n)
        /\ Len(added[n]) >= 3
        /\ LET k == Len(added[n])
           IN  /\ added[n][k - 1].timestamp <= added[n][k - 2].timestamp
               /\ added[n][k].timestamp > added[n][k - 1].timestamp
               /\ added[n][k].timestamp <= added[n][k - 2].timestamp
        /\ rates.up # Zero

(***************************************************************************)
(* Further properties of the Aggregator.                                   *)
(***************************************************************************)
\* the fields of a FlowStat other than its four counters and last_seen
Identity(f) ==
    <<FlowKey(f), f.start_time, <<f.process_name, f.process_pid>>>>

\* C30: update_flow leaves every existing entry at its place with its key
\* fields, its start_time and its process_name/process_pid as they were,
\* whatever start_time and process the incoming FlowStat carries, so these
\* stay those of the FlowStat first inserted for the key for as long as the
\* entry is in the table; of the entry merged into only the four counters
\* and last_seen change, and the other entries do not change at all.
C30_MergeKeepsIdentity ==
    \A flow \in FlowInputs(now) :
        \A after \in {update_flow(Self, flow, now).flows} :
            /\ Len(after) >= Len(flows)
            /\ \A i \in 1..Len(flows) :
                  /\ Identity(after[i]) = Identity(flows[i])
                  /\ ~SameKey(flows[i], flow) => after[i] = flows[i]
                  /\ SameKey(flows[i], flow) =>
                        after[i] = [flows[i] EXCEPT
                                      !.bytes_up = after[i].bytes_up,
                                      !.bytes_down = after[i].bytes_down,
                                      !.packets_up = after[i].packets_up,
                                      !.packets_down = after[i].packets_down,
                                      !.last_seen = after[i].last_seen]

\* an entry inserted at time 0 without a process has merged, two clock
\* units later, a FlowStat stamped later and attributed to a process: it
\* still has its start_time and no process
C30_Witness ==
    \E i \in 1..Len(flows) :
        /\ HasKey(flows[i], KeyAB)
        /\ <<flows[i].process_name, flows[i].process_pid>> = NoProcess
        /\ flows[i].start_time = 0
        /\ flows[i].last_seen = 2
        /\ flows[i].bytes_down >= 2

=============================================================================
